---- MODULE Spec2Model ----
(***************************************************************************)
(* fyrna/cli: the command tree, flag binding and dispatch of App.          *)
(*                                                                         *)
(* src/cli.go holds two revisions of the package; the model follows the    *)
(* later one (src/cli.go lines 287-643: App.add returning an error,        *)
(* App.execute with global flags and validation, App.Parse routing every   *)
(* execution through safeExecute).                                         *)
(*                                                                         *)
(* A Go string is a sequence of one-character strings, so that             *)
(* strings.Split, strings.HasPrefix, strconv and the flag syntax are        *)
(* computed and not assumed.                                               *)
(***************************************************************************)
EXTENDS Integers, Sequences, FiniteSets, TLC

\* the number of Command objects one run registers (the built-in "version"
\* command included)
MaxCmds == 3

\* the global flag descriptors registered at most
MaxGlobals == 1

---------------------------------------------------------------------------
\* strings

sA == <<"a">>
sB == <<"b">>
sX == <<"x">>
sHelp == <<"h", "e", "l", "p">>
sVersion == <<"v", "e", "r", "s", "i", "o", "n">>
sAB == <<"a", " ", "b">>

rootCommandPath == <<>>

HasPrefixDash(s) == Len(s) >= 1 /\ s[1] = "-"

\* the index of the first occurrence of character c in s, 0 when there is none
RECURSIVE IndexFrom(_, _, _)
IndexFrom(s, c, i) ==
  IF i > Len(s) THEN 0
  ELSE IF s[i] = c THEN i
  ELSE IndexFrom(s, c, i + 1)

Index(s, c) == IndexFrom(s, c, 1)

RECURSIVE Split(_)
Split(s) ==
  LET i == Index(s, " ")
  IN IF i = 0 THEN <<s>>
     ELSE <<SubSeq(s, 1, i - 1)>> \o Split(SubSeq(s, i + 1, Len(s)))

Digits == <<"0", "1", "2", "3", "4", "5", "6", "7", "8", "9">>

DigitChar(d) == Digits[d + 1]

IsDigit(c) == \E d \in 0..9 : Digits[d + 1] = c

DigitVal(c) == CHOOSE d \in 0..9 : Digits[d + 1] = c

RECURSIVE ItoaNat(_)
ItoaNat(n) ==
  IF n < 10 THEN <<DigitChar(n)>>
  ELSE Append(ItoaNat(n \div 10), DigitChar(n % 10))

Itoa(n) == IF n < 0 THEN <<"-">> \o ItoaNat(0 - n) ELSE ItoaNat(n)

RECURSIVE AtoiNat(_, _)
AtoiNat(s, acc) ==
  IF Len(s) = 0 THEN acc
  ELSE AtoiNat(Tail(s), 10 * acc + DigitVal(Head(s)))

\* the decimal strings strconv accepts, among the inputs of the model
IsNumber(s) ==
  LET body == IF Len(s) >= 1 /\ s[1] \in {"-", "+"} THEN Tail(s) ELSE s
  IN Len(body) >= 1 /\ \A i \in 1..Len(body) : IsDigit(body[i])

Atoi(s) ==
  IF Len(s) >= 1 /\ s[1] = "-" THEN 0 - AtoiNat(Tail(s), 0)
  ELSE IF Len(s) >= 1 /\ s[1] = "+" THEN AtoiNat(Tail(s), 0)
  ELSE AtoiNat(s, 0)

---------------------------------------------------------------------------
\* state

VARIABLES
  Version,       \* App.Version
  Desc,          \* App.Desc
  panicHandler,  \* App.config.panicHandler is set
  cmds,          \* the Command objects, in creation order; a command's id is its index
  rootCmd,       \* App.root.cmd: the id of the root override, 0 when nil
  child,         \* the nodes below App.root: node path |-> id of node.cmd
  descs,         \* the flag descriptor objects, in creation order
  globals,       \* App.globals: indices into descs
  supersedes,    \* history: supersedes[c] is the command that c replaced on registration, 0 when none
  op,            \* the call that has returned: "Command", "Adopt", "Flags", "Validate", "Parse"; "idle" when none
  input,         \* its arguments: the path of Command, the arguments of Parse
  recv,          \* the descriptor Validate was called on, 0 for the other calls
  err,           \* the error it returned; "nil" when none
  escaped,       \* a panic left the call
  trace,         \* the callbacks and handlers it ran, in order
  out,           \* what it wrote to App.Out
  ctx,           \* the Context the callbacks or the not-found handler saw
  handlers,      \* HookManager.handlers: event |-> the handlers registered, in order
  hevent,        \* the event of the last trigger, "" when none
  hcalls,        \* the handlers that trigger invoked, in order, with what they returned
  hret,          \* the error that trigger returned: the id of the handler whose error it is, 0 for nil
  views,         \* the MapStore objects: prefix and the state of the object's own mu
  data,          \* the map the MapStore objects share: key |-> value
  setBy,         \* history: key |-> the prefix of the view whose Set stored it
  pc,            \* per goroutine: "idle", or "held" inside a MapStore method with its lock taken
  call,          \* per goroutine: the method it is in, the view it called it on, the key
  sres,          \* the MapStore method that returned last and its result, until the next call
  fatal          \* the runtime has stopped the program (concurrent map access)

appVars == <<Version, Desc, panicHandler, cmds, rootCmd, child, descs, globals,
             supersedes, op, input, recv, err, escaped, trace, out, ctx>>

hookVars == <<handlers, hevent, hcalls, hret>>

storeVars == <<views, data, setBy, pc, call, sres, fatal>>

vars == <<appVars, hookVars, storeVars>>

appName == <<"a", "p", "p">>

noCtx == [set |-> FALSE, Cmd |-> 0, RawArgs |-> <<>>, Args |-> <<>>, name |-> <<>>]

---------------------------------------------------------------------------
\* the command tree

RECURSIVE get(_, _, _)
get(ch, cur, parts) ==
  IF Len(parts) = 0 THEN [node |-> cur, rest |-> <<>>]
  ELSE IF Append(cur, Head(parts)) \in DOMAIN ch
       THEN get(ch, Append(cur, Head(parts)), Tail(parts))
       ELSE [node |-> cur, rest |-> parts]

\* node.cmd of the node at path n; 0 is nil
nodeCmd(ch, root, n) == IF Len(n) = 0 THEN root ELSE ch[n]

isBuiltin(name) == name \in {sVersion, sHelp}

IsPrefix(p, q) == Len(p) <= Len(q) /\ SubSeq(q, 1, Len(p)) = p

\* delete(cur.child, name): the node and everything below it
deleteNode(ch, n) ==
  LET keep == {q \in DOMAIN ch : ~IsPrefix(n, q)}
  IN [q \in keep |-> ch[q]]

\* cur.child[name] = &node{cmd: cmd, child: make(map[string]*node)}
putNode(ch, n, id) ==
  [q \in (DOMAIN ch) \cup {n} |-> IF q = n THEN id ELSE ch[q]]

\* App.add, with id the id the new command gets: the error, the tree after it,
\* and the command replaced (0 when none)
addAlwaysReplace(path, id, ch, root) ==
  IF path = rootCommandPath
  THEN [err |-> "nil", root |-> id, child |-> ch, name |-> path, replaced |-> root]
  ELSE LET parts == Split(path)
           cur == get(ch, <<>>, SubSeq(parts, 1, Len(parts) - 1)).node
           name == parts[Len(parts)]
           n == Append(cur, name)
       IN IF n \in DOMAIN ch
          THEN [err |-> "nil", root |-> root, child |-> putNode(deleteNode(ch, n), n, id),
                name |-> name, replaced |-> ch[n]]
          ELSE [err |-> "nil", root |-> root, child |-> putNode(ch, n, id),
                name |-> name, replaced |-> 0]

addKeepOld(path, id, ch, root) ==
  IF path = rootCommandPath
  THEN [err |-> "nil", root |-> id, child |-> ch, name |-> path, replaced |-> root]
  ELSE LET parts == Split(path)
           cur == get(ch, <<>>, SubSeq(parts, 1, Len(parts) - 1)).node
           name == parts[Len(parts)]
           n == Append(cur, name)
       IN IF n \in DOMAIN ch
          THEN IF isBuiltin(name)
               THEN [err |-> "nil", root |-> root, child |-> ch,
                     name |-> name, replaced |-> 0]
               ELSE [err |-> "duplicate command", root |-> root, child |-> ch,
                     name |-> name, replaced |-> 0]
          ELSE [err |-> "nil", root |-> root, child |-> putNode(ch, n, id),
                name |-> name, replaced |-> 0]

add(path, id, ch, root) ==
  IF path = rootCommandPath
  THEN [err |-> "nil", root |-> id, child |-> ch, name |-> path, replaced |-> root]
  ELSE LET parts == Split(path)
           cur == get(ch, <<>>, SubSeq(parts, 1, Len(parts) - 1)).node
           name == parts[Len(parts)]
           n == Append(cur, name)
       IN IF n \in DOMAIN ch
          THEN IF isBuiltin(name)
               THEN [err |-> "nil", root |-> root,
                     child |-> putNode(deleteNode(ch, n), n, id),
                     name |-> name, replaced |-> ch[n]]
               ELSE [err |-> "duplicate command", root |-> root, child |-> ch,
                     name |-> name, replaced |-> 0]
          ELSE [err |-> "nil", root |-> root, child |-> putNode(ch, n, id),
                name |-> name, replaced |-> 0]

---------------------------------------------------------------------------
\* flag descriptors and flag sets
\*
\* A descriptor is an object of the heap descs; a flag set is a set of flags,
\* each holding its name, the default it was registered with (flag.Flag.DefValue)
\* and ref, the descriptor whose def field is its value (flag.Flag.Value points
\* to it).  A nil *flag.FlagSet and an empty one are the same set: App.execute
\* and flagSet replace nil by a fresh empty set before any use.

stringFlag(name, short, def, required) ==
  [kind |-> "string", name |-> name, short |-> short, usage |-> name,
   sdef |-> def, idef |-> 0, required |-> required, min |-> 0, max |-> 0]

intFlag(name, def, min, max) ==
  [kind |-> "int", name |-> name, short |-> <<>>, usage |-> name,
   sdef |-> <<>>, idef |-> def, required |-> FALSE, min |-> min, max |-> max]

\* fs.Lookup(name): the flags of that name (none or one)
Lookup(fs, name) == {f \in fs : f.name = name}

\* the descriptor's def field as flag.Value.String() prints it
defString(d) == IF d.kind = "string" THEN d.sdef ELSE Itoa(d.idef)

\* f.Value.String()
valueString(heap, f) == defString(heap[f.ref])

newFlag(heap, ref, name) ==
  [name |-> name, kind |-> heap[ref].kind, usage |-> heap[ref].usage,
   DefValue |-> defString(heap[ref]), ref |-> ref]

RECURSIVE applyShort(_, _, _, _)
applyShort(fs, heap, ref, short) ==
  IF Len(short) = 0 THEN fs
  ELSE IF Lookup(fs, Head(short)) # {}
       THEN applyShort(fs, heap, ref, Tail(short))
       ELSE applyShort(fs \cup {newFlag(heap, ref, Head(short))}, heap, ref, Tail(short))

\* apply without the test for an existing name: the name is bound anew
applyOverwrite(fs, heap, ref) ==
  applyShort({f \in fs : f.name # heap[ref].name} \cup {newFlag(heap, ref, heap[ref].name)},
             heap, ref, heap[ref].short)

\* stringFlag.apply, intFlag.apply
apply(fs, heap, ref) ==
  IF Lookup(fs, heap[ref].name) # {} THEN fs
  ELSE applyShort(fs \cup {newFlag(heap, ref, heap[ref].name)}, heap, ref, heap[ref].short)

\* for _, f := range ff { f.apply(fs) }
RECURSIVE applyAll(_, _, _)
applyAll(fs, heap, refs) ==
  IF Len(refs) = 0 THEN fs
  ELSE applyAll(apply(fs, heap, Head(refs)), heap, Tail(refs))

isFlagPassed(fs, heap, name) ==
  LET f == CHOOSE f \in Lookup(fs, name) : TRUE
  IN f.DefValue # valueString(heap, f)

\* stringFlag.Validate
stringValidate(d) ==
  IF d.required /\ d.sdef = <<>> THEN "flag is required" ELSE "nil"

\* intFlag.Validate
intValidateStrict(d) ==
  IF d.idef <= d.min \/ d.idef >= d.max THEN "out of range" ELSE "nil"

intValidate(d) ==
  IF d.idef < d.min \/ d.idef > d.max THEN "out of range" ELSE "nil"

\* flag.FlagSet.Parse of the standard library, for string and int flags:
\* the error, the heap with the values set, and the arguments left (fs.Args())
RECURSIVE fsParse(_, _, _)
fsParse(fs, heap, args) ==
  IF Len(args) = 0 THEN [err |-> "nil", heap |-> heap, args |-> args]
  ELSE
  LET s == Head(args)
  IN IF Len(s) < 2 \/ s[1] # "-" THEN [err |-> "nil", heap |-> heap, args |-> args]
     ELSE
     LET numMinuses == IF s[2] = "-" THEN 2 ELSE 1
         name0 == SubSeq(s, numMinuses + 1, Len(s))
     IN IF numMinuses = 2 /\ Len(s) = 2
        THEN [err |-> "nil", heap |-> heap, args |-> Tail(args)]
        ELSE IF Len(name0) = 0 \/ name0[1] \in {"-", "="}
        THEN [err |-> "bad flag syntax", heap |-> heap, args |-> args]
        ELSE
        LET eq == IndexFrom(name0, "=", 2)
            name == IF eq = 0 THEN name0 ELSE SubSeq(name0, 1, eq - 1)
            rest0 == Tail(args)
            hasValue == eq # 0 \/ Len(rest0) > 0
            value == IF eq # 0 THEN SubSeq(name0, eq + 1, Len(name0))
                     ELSE IF Len(rest0) > 0 THEN Head(rest0) ELSE <<>>
            rest1 == IF eq # 0 \/ Len(rest0) = 0 THEN rest0 ELSE Tail(rest0)
        IN IF Lookup(fs, name) = {}
           THEN IF name \in {sHelp, <<"h">>}
                THEN [err |-> "flag: help requested", heap |-> heap, args |-> rest0]
                ELSE [err |-> "flag provided but not defined", heap |-> heap, args |-> rest0]
           ELSE
           LET f == CHOOSE f \in Lookup(fs, name) : TRUE
           IN IF ~hasValue
              THEN [err |-> "flag needs an argument", heap |-> heap, args |-> rest0]
              ELSE IF f.kind = "string"
              THEN fsParse(fs, [heap EXCEPT ![f.ref].sdef = value], rest1)
              ELSE IF IsNumber(value)
              THEN fsParse(fs, [heap EXCEPT ![f.ref].idef = Atoi(value)], rest1)
              ELSE [err |-> "invalid value", heap |-> heap, args |-> rest1]

---------------------------------------------------------------------------
\* validation of the flags (App.execute, the VisitAll loop)

Alphabet == <<"-", "0", "1", "2", "3", "4", "5", "6", "7", "8", "9", "=",
              "a", "b", "c", "d", "e", "f", "g", "h", "i", "j", "k", "l", "m",
              "n", "o", "p", "q", "r", "s", "t", "u", "v", "w", "x", "y", "z">>

RECURSIVE strLess(_, _)
strLess(s, t) ==
  IF Len(t) = 0 THEN FALSE
  ELSE IF Len(s) = 0 THEN TRUE
  ELSE IF Head(s) = Head(t) THEN strLess(Tail(s), Tail(t))
  ELSE Index(Alphabet, Head(s)) < Index(Alphabet, Head(t))

\* the order in which FlagSet.VisitAll visits the flags: by name
RECURSIVE sortedFlags(_)
sortedFlags(fs) ==
  IF fs = {} THEN <<>>
  ELSE LET m == CHOOSE f \in fs : \A g \in fs : g = f \/ strLess(f.name, g.name)
       IN <<m>> \o sortedFlags(fs \ {m})

\* f.Value.(interface{ Required() bool }): f.Value is the *stringValue or
\* *intValue the standard library made in StringVar or IntVar, which has the
\* methods Set, Get and String only
hasRequired(f) == FALSE

\* f.Value.(interface{ Validate() error }), likewise
hasValidate(f) == FALSE

validateOf(d) == IF d.kind = "string" THEN stringValidate(d) ELSE intValidate(d)

\* the value the loop leaves in err
RECURSIVE validateAll(_, _, _, _)
validateAll(flags, fs, heap, e) ==
  IF Len(flags) = 0 THEN e
  ELSE LET f == Head(flags)
           d == heap[f.ref]
           e1 == IF hasRequired(f) /\ d.required /\ ~isFlagPassed(fs, heap, f.name)
                 THEN "required flag not provided" ELSE e
           e2 == IF hasValidate(f) /\ validateOf(d) # "nil" THEN validateOf(d) ELSE e1
       IN validateAll(Tail(flags), fs, heap, e2)

---------------------------------------------------------------------------
\* dispatch

ev(c, cb, ret) == [cmd |-> c, cb |-> cb, ret |-> ret]

\* what a call returns and leaves behind: the error, whether it is panicking,
\* the callbacks run, the output, the Context built, the descriptor heap, and
\* the command whose flag set is now flags (0 when none)
result(e, t, o, cx, heap, c, fs) ==
  [err |-> e, panicked |-> FALSE, trace |-> t, out |-> o, ctx |-> cx,
   heap |-> heap, cmd |-> c, flags |-> fs]

\* the action callback: the built-in "version" action, or a user's function
\* whose outcome oa the environment chooses
runAction(cmd, oa) ==
  IF cmd.Action = "version"
  THEN IF Version = <<>>
       THEN [err |-> "version not set", out |-> <<>>, panic |-> FALSE, ret |-> "err"]
       ELSE [err |-> "nil", out |-> Version \o <<"\n">>, panic |-> FALSE, ret |-> "ok"]
  ELSE [err |-> IF oa = "err" THEN "action error" ELSE "nil", out |-> <<>>,
        panic |-> (oa = "panic"), ret |-> oa]

\* the deferred function of App.execute: the error it leaves in err, given the
\* error e of the action and the outcome oaf of the after-hook
deferredAfterLastWins(cmd, e, oaf) ==
  IF cmd.After /\ oaf = "err" THEN "after error" ELSE e

deferredAfter(cmd, e, oaf) ==
  IF cmd.After /\ oaf = "err" /\ e = "nil" THEN "after error" ELSE e

\* App.execute with the before-hook run ahead of the test for a missing
\* action (the order of the earlier revision, src/cli.go lines 220-228)
executeBeforeFirst(c, args0, ob, oa, oaf) ==
  IF c = 0 THEN result("no command defined", <<>>, <<>>, noCtx, descs, 0, {})
  ELSE
  LET cmd == cmds[c]
      args == IF c = rootCmd THEN <<rootCommandPath>> \o args0 ELSE args0
      fs == applyAll(cmd.Flags, descs, globals)
      p == fsParse(fs, descs, Tail(args))
      cx == [set |-> TRUE, Cmd |-> c, RawArgs |-> args, Args |-> p.args, name |-> <<>>]
      t1 == IF cmd.Before THEN <<ev(c, "before", ob)>> ELSE <<>>
  IN IF p.err # "nil" THEN result(p.err, <<>>, <<>>, noCtx, p.heap, c, fs)
     ELSE IF cmd.Before /\ ob = "err"
     THEN result("before error", t1, <<>>, cx, p.heap, c, fs)
     ELSE IF cmd.Action = "nil"
     THEN result("no action defined", t1, <<>>, cx, p.heap, c, fs)
     ELSE
     LET a == runAction(cmd, oa)
         t2 == Append(t1, ev(c, "action", a.ret))
         t3 == IF cmd.After THEN Append(t2, ev(c, "after", oaf)) ELSE t2
         e3 == deferredAfter(cmd, a.err, oaf)
     IN [result(e3, t3, a.out, cx, p.heap, c, fs) EXCEPT !.panicked = a.panic]

\* App.execute; ob, oa, oaf are the outcomes of the three callbacks
execute(c, args0, ob, oa, oaf) ==
  IF c = 0 THEN result("no command defined", <<>>, <<>>, noCtx, descs, 0, {})
  ELSE
  LET cmd == cmds[c]
      args == IF c = rootCmd THEN <<rootCommandPath>> \o args0 ELSE args0
      fs == applyAll(cmd.Flags, descs, globals)
      p == fsParse(fs, descs, Tail(args))
      verr == validateAll(sortedFlags(fs), fs, p.heap, "nil")
      cx == [set |-> TRUE, Cmd |-> c, RawArgs |-> args, Args |-> p.args, name |-> <<>>]
  IN IF p.err # "nil" THEN result(p.err, <<>>, <<>>, noCtx, p.heap, c, fs)
     ELSE IF cmd.Action = "nil"
     THEN result("no action defined", <<>>, <<>>, noCtx, p.heap, c, fs)
     ELSE IF cmd.Before /\ ob = "err"
     THEN result("before error", <<ev(c, "before", "err")>>, <<>>, cx, p.heap, c, fs)
     ELSE
     LET t1 == IF cmd.Before THEN <<ev(c, "before", "ok")>> ELSE <<>>
         \* err = c.Before(ctx) and return c.Action(ctx) both assign the named
         \* result err: what the validation loop left in it is overwritten
         a == runAction(cmd, oa)
         t2 == Append(t1, ev(c, "action", a.ret))
         t3 == IF cmd.After THEN Append(t2, ev(c, "after", oaf)) ELSE t2
         e3 == deferredAfter(cmd, a.err, oaf)
     IN [result(e3, t3, a.out, cx, p.heap, c, fs) EXCEPT !.panicked = a.panic]

\* Args.Get(i) on the arguments a
ArgsGet(a, i) == IF i < 0 \/ i >= Len(a) THEN <<>> ELSE a[i + 1]

\* App.safeExecute
safeExecute(c, args, ob, oa, oaf) ==
  LET r == execute(c, args, ob, oa, oaf)
  IN IF r.panicked
     THEN IF panicHandler
          THEN [r EXCEPT !.panicked = FALSE, !.err = "nil",
                         !.trace = Append(@, ev(0, "panicHandler", "ok"))]
          ELSE [r EXCEPT !.panicked = FALSE, !.err = "panic"]
     ELSE r

\* the banner of the earlier revision (App.ShowRootHelp)
ShowRootHelp ==
  LET line == IF Version # <<>>
              THEN appName \o <<" ", "-", " ">> \o Version \o <<"\n">>
              ELSE appName \o <<"\n">>
      text == IF Desc # <<>> THEN line \o <<"\t">> \o Desc \o <<"\n">> ELSE line
  IN result("nil", <<ev(0, "banner", "ok")>>, text, noCtx, descs, 0, {})

\* App.PrintRootHelp
PrintRootHelp ==
  LET line == IF Version # <<>>
              THEN appName \o <<" ", "-", " ", "v">> \o Version \o <<"\n">>
              ELSE appName \o <<"\n">>
      text == IF Desc # <<>> THEN line \o <<"\n">> \o Desc \o <<"\n">> ELSE line
  IN result("nil", <<ev(0, "banner", "ok")>>, text, noCtx, descs, 0, {})

\* App.OnNotFound as New sets it: writes to App.Err and returns nil
OnNotFound(cx, name) ==
  result("nil", <<ev(0, "notFound", "ok")>>, <<>>,
         [set |-> TRUE, Cmd |-> 0, RawArgs |-> cx.RawArgs, Args |-> <<>>, name |-> name],
         descs, 0, {})

\* App.Parse with the help command tried before the root override
routeHelpFirst(args) ==
  IF Len(args) = 0
  THEN IF <<sHelp>> \in DOMAIN child /\ child[<<sHelp>>] # 0
       THEN [to |-> "execute", cmd |-> child[<<sHelp>>], args |-> <<sHelp>>]
       ELSE IF rootCmd # 0
       THEN [to |-> "execute", cmd |-> rootCmd, args |-> <<rootCommandPath>>]
       ELSE [to |-> "banner", cmd |-> 0, args |-> args]
  ELSE LET n == get(child, <<>>, args).node
           c == nodeCmd(child, rootCmd, n)
       IN IF c # 0 /\ cmds[c].Name # <<>>
          THEN [to |-> "execute", cmd |-> c, args |-> args]
          ELSE IF rootCmd # 0 /\ HasPrefixDash(args[1])
          THEN [to |-> "execute", cmd |-> rootCmd, args |-> args]
          ELSE [to |-> "notFound", cmd |-> 0, args |-> args]

\* App.Parse without the test of the resolved command's name (as in the
\* earlier revision, src/cli.go lines 266-273)
routeAnyCommand(args) ==
  IF Len(args) = 0
  THEN IF rootCmd # 0
       THEN [to |-> "execute", cmd |-> rootCmd, args |-> <<rootCommandPath>>]
       ELSE IF <<sHelp>> \in DOMAIN child /\ child[<<sHelp>>] # 0
       THEN [to |-> "execute", cmd |-> child[<<sHelp>>], args |-> <<sHelp>>]
       ELSE [to |-> "banner", cmd |-> 0, args |-> args]
  ELSE LET n == get(child, <<>>, args).node
           c == nodeCmd(child, rootCmd, n)
       IN IF c # 0
          THEN [to |-> "execute", cmd |-> c, args |-> args]
          ELSE [to |-> "notFound", cmd |-> 0, args |-> args]

\* App.Parse: the command it executes and the arguments it passes, "banner"
\* for the default help, "notFound" for the not-found handler
route(args) ==
  IF Len(args) = 0
  THEN IF rootCmd # 0
       THEN [to |-> "execute", cmd |-> rootCmd, args |-> <<rootCommandPath>>]
       ELSE IF <<sHelp>> \in DOMAIN child /\ child[<<sHelp>>] # 0
       THEN [to |-> "execute", cmd |-> child[<<sHelp>>], args |-> <<sHelp>>]
       ELSE [to |-> "banner", cmd |-> 0, args |-> args]
  ELSE LET n == get(child, <<>>, args).node
           c == nodeCmd(child, rootCmd, n)
       IN IF c # 0 /\ cmds[c].Name # <<>>
          THEN [to |-> "execute", cmd |-> c, args |-> args]
          ELSE IF rootCmd # 0 /\ HasPrefixDash(args[1])
          THEN [to |-> "execute", cmd |-> rootCmd, args |-> args]
          ELSE [to |-> "notFound", cmd |-> 0, args |-> args]

parse(args, ob, oa, oaf) ==
  LET rt == route(args)
  IN IF rt.to = "execute" THEN safeExecute(rt.cmd, rt.args, ob, oa, oaf)
     ELSE IF rt.to = "banner" THEN PrintRootHelp
     ELSE OnNotFound([RawArgs |-> <<>>], args[1])

---------------------------------------------------------------------------
\* inputs

Paths == {rootCommandPath, sA, sAB, sHelp, sVersion}

reqS(def) == stringFlag(<<"s">>, <<>>, def, TRUE)

plain == [Before |-> FALSE, Action |-> "user", After |-> FALSE, flags |-> <<>>]

hooks == [Before |-> TRUE, Action |-> "user", After |-> TRUE, flags |-> <<>>]

noAction == [Before |-> TRUE, Action |-> "nil", After |-> TRUE, flags |-> <<>>]

withFlag(d) == [Before |-> FALSE, Action |-> "user", After |-> FALSE, flags |-> <<d>>]

\* the global descriptors: String("s", "t").Default("g").Help("g")
GlobalDescs == {[stringFlag(<<"s">>, <<<<"t">>>>, <<"g">>, FALSE) EXCEPT !.usage = <<"g">>]}

\* the registrations: a path and the options of the command
Regs ==
  (Paths \X {plain})
  \cup ({rootCommandPath, sA, sHelp} \X {hooks})
  \cup ({rootCommandPath, sA} \X {noAction})
  \cup ({sA} \X {withFlag(reqS(<<>>)), withFlag(reqS(<<"d">>)),
                 withFlag(intFlag(<<"n">>, 5, 1, 10))})

fS(v) == <<"-", "s", "=">> \o v

fN(v) == <<"-", "n", "=">> \o v

ArgLists ==
  { <<>>, <<sA>>, <<sA, sB>>, <<sA, sB, sX>>, <<sA, sX>>, <<sX>>, <<sB>>,
    <<sHelp>>, <<sVersion>>,
    <<fS(<<"x">>)>>, <<sA, fS(<<"x">>)>>, <<sA, fS(<<"d">>)>>,
    <<sA, fN(<<"0">>)>>, <<sA, fN(<<"1">>)>>, <<sA, fN(<<"1", "0">>)>>,
    <<sA, fN(<<"1", "1">>)>> }

\* the outcomes a callback of command c can have: a callback that is not set,
\* or not a user's, has the one outcome "ok"
beforeOutcomes(c) == IF c # 0 /\ cmds[c].Before THEN {"ok", "err"} ELSE {"ok"}

actionOutcomes(c) ==
  IF c # 0 /\ cmds[c].Action = "user" THEN {"ok", "err", "panic"} ELSE {"ok"}

afterOutcomes(c) == IF c # 0 /\ cmds[c].After THEN {"ok", "err"} ELSE {"ok"}

---------------------------------------------------------------------------
\* the store (MapStore)

\* a sync.RWMutex: a writer holds it, or r readers do
freeMu == [w |-> FALSE, r |-> 0]

Goroutines == {"g1", "g2"}

\* a method call: the method, the view it is called on, its key argument
\* (Set, Get, Delete) or its variadic prefix argument (Keys, Clear), and, once
\* it has returned, the keys that Keys returned and the ok that Get returned
noCall == [op |-> "", view |-> 0, key |-> <<>>, prefix |-> <<>>, keys |-> {}, ok |-> FALSE]

sK == <<"k">>

\* the MapStore objects at most: the root and the namespace views
MaxViews == 3

Namespaces == {<<"a">>, <<"a", "b">>}

\* MapStore.makeKey
makeKey(prefix, key) == IF prefix = <<>> THEN key ELSE prefix \o <<".">> \o key

\* the prefix of the view that Namespace(name) returns
newPrefix(prefix, name) == IF prefix # <<>> THEN prefix \o <<".">> \o name ELSE name

\* the searchPrefix of Keys and Clear
searchPrefix(prefix, arg) == IF Len(arg) > 0 THEN makeKey(prefix, arg[1]) ELSE prefix

\* searchPrefix == "" || strings.HasPrefix(key, searchPrefix)
selected(sp, key) == sp = <<>> \/ IsPrefix(sp, key)

\* MapStore.Set on the map d
Set(d, prefix, key, value) ==
  [k \in (DOMAIN d) \cup {makeKey(prefix, key)} |->
     IF k = makeKey(prefix, key) THEN value ELSE d[k]]

\* MapStore.Get: ok
Get(d, prefix, key) == makeKey(prefix, key) \in DOMAIN d

\* MapStore.Delete
Delete(d, prefix, key) == [k \in (DOMAIN d) \ {makeKey(prefix, key)} |-> d[k]]

\* MapStore.Keys: the keys returned (their order is the map's iteration order)
Keys(d, prefix, arg) == {k \in DOMAIN d : selected(searchPrefix(prefix, arg), k)}

\* MapStore.Clear
Clear(d, prefix, arg) ==
  [k \in {k \in DOMAIN d : ~selected(searchPrefix(prefix, arg), k)} |-> d[k]]

\* the methods that take s.mu.Lock(); the others take s.mu.RLock()
isWrite(m) == m \in {"Set", "Delete", "Clear"}

\* Lock or RLock returns
canLock(mu, m) == IF isWrite(m) THEN ~mu.w /\ mu.r = 0 ELSE ~mu.w

lock(mu, m) == IF isWrite(m) THEN [mu EXCEPT !.w = TRUE] ELSE [mu EXCEPT !.r = @ + 1]

\* the deferred Unlock or RUnlock
unlock(mu, m) == IF isWrite(m) THEN [mu EXCEPT !.w = FALSE] ELSE [mu EXCEPT !.r = @ - 1]

\* the calls made: a method with its arguments
StoreCalls ==
  {[noCall EXCEPT !.op = m, !.key = sK] : m \in {"Set", "Get", "Delete"}}
  \cup {[noCall EXCEPT !.op = m] : m \in {"Keys", "Clear"}}

\* goroutines g and h are both inside a method, between taking and releasing
\* the lock, and one of the two writes the map
conflict(g, h) ==
  /\ g # h /\ pc[g] = "held" /\ pc[h] = "held"
  /\ (isWrite(call[g].op) \/ isWrite(call[h].op))

\* MapStore.Namespace(name) on view v: a new object with the same map, the new
\* prefix, and mu: s.mu, a copy of the receiver's lock.  The receiver's lock is
\* read without being taken: while a goroutine holds it the copy is as it
\* finds it, held or not
Namespace(v, name) ==
  /\ ~fatal
  /\ Len(views) < MaxViews
  /\ \E m \in {views[v].mu, freeMu} :
       views' = Append(views, [prefix |-> newPrefix(views[v].prefix, name), mu |-> m])
  /\ UNCHANGED <<data, setBy, pc, call, sres, fatal, appVars, hookVars>>

\* goroutine g calls method c on view v: s.mu.Lock() or s.mu.RLock() returns
Lock(g, v, c) ==
  /\ ~fatal
  /\ pc[g] = "idle"
  /\ canLock(views[v].mu, c.op)
  /\ views' = [views EXCEPT ![v].mu = lock(@, c.op)]
  /\ pc' = [pc EXCEPT ![g] = "held"]
  /\ call' = [call EXCEPT ![g] = [c EXCEPT !.view = v]]
  /\ sres' = noCall
  /\ UNCHANGED <<data, setBy, fatal, appVars, hookVars>>

\* goroutine g does the method's map access and returns, releasing the lock.
\* With another goroutine inside a method and one of the two writing, the
\* access is a data race on the map: it takes effect or the runtime stops the
\* program (fatal error: concurrent map writes)
Unlock(g) ==
  /\ ~fatal
  /\ pc[g] = "held"
  /\ LET c == call[g]
         v == c.view
         pre == views[v].prefix
     IN /\ \/ /\ fatal' = FALSE
              /\ data' = IF c.op = "Set" THEN Set(data, pre, c.key, "v")
                         ELSE IF c.op = "Delete" THEN Delete(data, pre, c.key)
                         ELSE IF c.op = "Clear" THEN Clear(data, pre, c.prefix)
                         ELSE data
              /\ setBy' = IF c.op = "Set" THEN Set(setBy, pre, c.key, pre)
                          ELSE IF c.op = "Delete" THEN Delete(setBy, pre, c.key)
                          ELSE IF c.op = "Clear" THEN Clear(setBy, pre, c.prefix)
                          ELSE setBy
              /\ sres' = [c EXCEPT !.keys = IF c.op = "Keys" THEN Keys(data, pre, c.prefix)
                                            ELSE {},
                                   !.ok = (c.op = "Get" /\ Get(data, pre, c.key))]
              /\ views' = [views EXCEPT ![v].mu = unlock(@, c.op)]
              /\ pc' = [pc EXCEPT ![g] = "idle"]
              /\ call' = [call EXCEPT ![g] = noCall]
           \/ /\ \E h \in Goroutines : conflict(g, h)
              /\ fatal' = TRUE
              /\ UNCHANGED <<views, data, setBy, pc, call, sres>>
  /\ UNCHANGED <<appVars, hookVars>>


---------------------------------------------------------------------------
\* the state machine: the caller makes one call at a time (op names the call
\* that has returned, "idle" when the caller has taken its result)

\* a ConfigOption applied to the application's fields
applyOption(app, o) ==
  IF o.opt = "SetVersion" THEN [app EXCEPT !.Version = o.v]
  ELSE IF o.opt = "SetDesc" THEN [app EXCEPT !.Desc = o.v]
  ELSE [app EXCEPT !.panicHandler = TRUE]

RECURSIVE applyOptions(_, _)
applyOptions(app, opts) ==
  IF Len(opts) = 0 THEN app
  ELSE applyOptions(applyOption(app, Head(opts)), Tail(opts))

SetVersion(v) == [opt |-> "SetVersion", v |-> v]

SetDesc(d) == [opt |-> "SetDesc", v |-> d]

FluxPanicHandler == [opt |-> "FluxPanicHandler", v |-> <<>>]

\* the option lists New is called with
OptLists ==
  { <<>>,
    <<SetVersion(<<"1">>), FluxPanicHandler>>,
    <<SetVersion(<<"1">>), SetDesc(<<"d">>)>>,
    <<SetDesc(<<"d">>), FluxPanicHandler>> }

\* New(name, opts...): the options are applied, then the built-in plugin
\* registers the "version" command
Init ==
  /\ \E opts \in OptLists :
       LET app == applyOptions([Version |-> <<>>, Desc |-> <<>>, panicHandler |-> FALSE],
                               opts)
       IN /\ Version = app.Version
          /\ Desc = app.Desc
          /\ panicHandler = app.panicHandler
  /\ LET r == add(sVersion, 1, [q \in {} |-> 0], 0)
     IN /\ cmds = <<[Name |-> r.name, Before |-> FALSE, Action |-> "version",
                     After |-> FALSE, Flags |-> {}]>>
        /\ rootCmd = r.root
        /\ child = r.child
  /\ descs = <<>>
  /\ globals = <<>>
  /\ supersedes = <<0>>
  /\ op = "idle"
  /\ input = <<>>
  /\ recv = 0
  /\ err = "nil"
  /\ escaped = FALSE
  /\ trace = <<>>
  /\ out = <<>>
  /\ ctx = noCtx
  /\ handlers = <<>>
  /\ hevent = ""
  /\ hcalls = <<>>
  /\ hret = 0
  /\ views = <<[prefix |-> <<>>, mu |-> freeMu]>>
  /\ data = <<>>
  /\ setBy = <<>>
  /\ pc = [g \in Goroutines |-> "idle"]
  /\ call = [g \in Goroutines |-> noCall]
  /\ sres = noCall
  /\ fatal = FALSE

\* App.Command(path, fn, opts...)
Command(path, o) ==
  /\ op = "idle"
  /\ Len(cmds) < MaxCmds
  /\ LET id == Len(cmds) + 1
         heap1 == descs \o o.flags
         refs == IF Len(o.flags) = 0 THEN <<>>
                 ELSE [i \in 1..Len(o.flags) |-> Len(descs) + i]
         r == add(path, id, child, rootCmd)
         cmd == [Name |-> r.name, Before |-> o.Before, Action |-> o.Action,
                 After |-> o.After, Flags |-> applyAll({}, heap1, refs)]
     IN /\ err' = r.err
        /\ IF r.err = "nil"
           THEN /\ cmds' = Append(cmds, cmd)
                /\ descs' = heap1
                /\ rootCmd' = r.root
                /\ child' = r.child
                /\ supersedes' = Append(supersedes, r.replaced)
           ELSE UNCHANGED <<cmds, descs, rootCmd, child, supersedes>>
  /\ op' = "Command"
  /\ input' = <<path>>
  /\ recv' = 0
  /\ escaped' = FALSE
  /\ trace' = <<>>
  /\ out' = <<>>
  /\ ctx' = noCtx
  /\ UNCHANGED <<Version, Desc, panicHandler, globals>>
  /\ UNCHANGED <<hookVars, storeVars>>

\* printAppVersion.Install with the test for an existing "version" left out
InstallAlways(ch) == TRUE

\* printAppVersion.Install: whether it registers its "version" command
Install(ch) == <<sVersion>> \notin DOMAIN ch

\* App.Adopt(printAppVersion{}) on the constructed application
Adopt ==
  /\ op = "idle"
  /\ IF Install(child)
     THEN /\ Len(cmds) < MaxCmds
          /\ LET r == add(sVersion, Len(cmds) + 1, child, rootCmd)
             IN /\ cmds' = Append(cmds, [Name |-> r.name, Before |-> FALSE,
                                         Action |-> "version", After |-> FALSE,
                                         Flags |-> {}])
                /\ rootCmd' = r.root
                /\ child' = r.child
                /\ supersedes' = Append(supersedes, r.replaced)
     ELSE UNCHANGED <<cmds, rootCmd, child, supersedes>>
  /\ op' = "Adopt"
  /\ input' = <<>>
  /\ recv' = 0
  /\ err' = "nil"
  /\ escaped' = FALSE
  /\ trace' = <<>>
  /\ out' = <<>>
  /\ ctx' = noCtx
  /\ UNCHANGED <<Version, Desc, panicHandler, descs, globals>>
  /\ UNCHANGED <<hookVars, storeVars>>

\* App.Flags(d)
AppFlags(d) ==
  /\ op = "idle"
  /\ Len(globals) < MaxGlobals
  /\ descs' = Append(descs, d)
  /\ globals' = Append(globals, Len(descs) + 1)
  /\ op' = "Flags"
  /\ input' = <<d.name>>
  /\ recv' = 0
  /\ err' = "nil"
  /\ escaped' = FALSE
  /\ trace' = <<>>
  /\ out' = <<>>
  /\ ctx' = noCtx
  /\ UNCHANGED <<Version, Desc, panicHandler, cmds, rootCmd, child, supersedes>>
  /\ UNCHANGED <<hookVars, storeVars>>

\* f.Validate() on the descriptor f = descs[i]
Validate(i) ==
  /\ op = "idle"
  /\ op' = "Validate"
  /\ input' = <<descs[i].name>>
  /\ recv' = i
  /\ err' = validateOf(descs[i])
  /\ escaped' = FALSE
  /\ trace' = <<>>
  /\ out' = <<>>
  /\ ctx' = noCtx
  /\ UNCHANGED <<Version, Desc, panicHandler, cmds, rootCmd, child, descs, globals,
                 supersedes>>
  /\ UNCHANGED <<hookVars, storeVars>>

\* App.Parse(args)
Parse(args) ==
  /\ op = "idle"
  /\ \E ob \in beforeOutcomes(route(args).cmd), oa \in actionOutcomes(route(args).cmd),
        oaf \in afterOutcomes(route(args).cmd) :
       LET r == parse(args, ob, oa, oaf)
       IN /\ err' = r.err
          /\ escaped' = r.panicked
          /\ trace' = r.trace
          /\ out' = r.out
          /\ ctx' = r.ctx
          /\ descs' = r.heap
          /\ cmds' = IF r.cmd = 0 THEN cmds ELSE [cmds EXCEPT ![r.cmd].Flags = r.flags]
  /\ op' = "Parse"
  /\ input' = args
  /\ recv' = 0
  /\ UNCHANGED <<Version, Desc, panicHandler, rootCmd, child, globals, supersedes>>
  /\ UNCHANGED <<hookVars, storeVars>>

\* the caller takes the result of the call and goes on
Return ==
  /\ op # "idle"
  /\ op' = "idle"
  /\ input' = <<>>
  /\ recv' = 0
  /\ err' = "nil"
  /\ escaped' = FALSE
  /\ trace' = <<>>
  /\ out' = <<>>
  /\ ctx' = noCtx
  /\ UNCHANGED <<Version, Desc, panicHandler, cmds, rootCmd, child, descs, globals,
                 supersedes>>
  /\ UNCHANGED <<hookVars, storeVars>>

Next ==
  \/ \E reg \in Regs : Command(reg[1], reg[2])
  \/ Adopt
  \/ \E i \in 1..Len(descs) : Validate(i)
  \/ \E args \in ArgLists : Parse(args)
  \/ Return

Spec == Init /\ [][Next]_vars

\* the application with global flags: registrations and dispatches of
\* commands with and without a local flag "s", around App.Flags
RegsFlags ==
  ({rootCommandPath, sA} \X {plain, withFlag(reqS(<<"d">>))}) \cup {<<sAB, plain>>}

ArgListsFlags ==
  { <<>>, <<sA>>, <<sA, sB>>, <<fS(<<"x">>)>>, <<sA, fS(<<"x">>)>>,
    <<sA, <<"-", "t", "=", "x">>>> }

NextFlags ==
  \/ \E reg \in RegsFlags : Command(reg[1], reg[2])
  \/ \E d \in GlobalDescs : AppFlags(d)
  \/ \E args \in ArgListsFlags : Parse(args)
  \/ Return

SpecFlags == Init /\ [][NextFlags]_vars

\* the store alone: two goroutines calling the methods of the root and of its
\* namespace views
NextStore ==
  \/ \E v \in 1..Len(views), name \in Namespaces : Namespace(v, name)
  \/ \E g \in Goroutines, v \in 1..Len(views), c \in StoreCalls : Lock(g, v, c)
  \/ \E g \in Goroutines : Unlock(g)

\* the application the store belongs to is New(name), without options
InitStore == Init /\ Version = <<>> /\ Desc = <<>> /\ panicHandler = FALSE

SpecStore == InitStore /\ [][NextStore]_vars

---------------------------------------------------------------------------
\* the hook manager (HookManager)

\* the handlers registered at most
MaxHandlers == 3

Events == {"not_found", "before_command"}

\* HookManager.register: h.handlers[event] = append(h.handlers[event], handler)
register(hm, event, h) ==
  [e \in (DOMAIN hm) \cup {event} |->
     IF e = event THEN Append(IF e \in DOMAIN hm THEN hm[e] ELSE <<>>, h) ELSE hm[e]]

\* all handlers of the event invoked, the first error returned at the end
RECURSIVE triggerAllLoop(_, _, _, _)
triggerAllLoop(hs, oc, calls, e) ==
  IF Len(hs) = 0 THEN [err |-> e, calls |-> calls]
  ELSE triggerAllLoop(Tail(hs), oc, Append(calls, [h |-> Head(hs), ret |-> oc[Head(hs)]]),
                      IF e = 0 /\ oc[Head(hs)] = "err" THEN Head(hs) ELSE e)

triggerAll(hm, event, oc) ==
  IF event \notin DOMAIN hm THEN [err |-> 0, calls |-> <<>>]
  ELSE triggerAllLoop(hm[event], oc, <<>>, 0)

\* for _, handler := range handlers: oc[h] is what handler h returns
RECURSIVE triggerLoop(_, _, _)
triggerLoop(hs, oc, calls) ==
  IF Len(hs) = 0 THEN [err |-> 0, calls |-> calls]
  ELSE LET h == Head(hs)
           c == Append(calls, [h |-> h, ret |-> oc[h]])
       IN IF oc[h] = "err" THEN [err |-> h, calls |-> c]
          ELSE triggerLoop(Tail(hs), oc, c)

\* HookManager.trigger: the error returned and the handlers invoked
trigger(hm, event, oc) ==
  IF event \notin DOMAIN hm THEN [err |-> 0, calls |-> <<>>]
  ELSE triggerLoop(hm[event], oc, <<>>)

\* the handlers registered so far
RECURSIVE registered(_, _)
registered(hm, es) ==
  IF es = {} THEN 0
  ELSE LET e == CHOOSE e \in es : TRUE
       IN Len(hm[e]) + registered(hm, es \ {e})

\* h.register(event, handler), through BeforeCommand, OnNotFound, ...
Register(event) ==
  /\ registered(handlers, DOMAIN handlers) < MaxHandlers
  /\ handlers' = register(handlers, event, registered(handlers, DOMAIN handlers) + 1)
  /\ hevent' = ""
  /\ hcalls' = <<>>
  /\ hret' = 0
  /\ UNCHANGED <<appVars, storeVars>>

\* h.trigger(event, ctx, args...)
Trigger(event, oc) ==
  /\ LET r == trigger(handlers, event, oc)
     IN /\ hcalls' = r.calls
        /\ hret' = r.err
  /\ hevent' = event
  /\ UNCHANGED <<handlers, appVars, storeVars>>

NextHooks ==
  \/ \E e \in Events : Register(e)
  \/ \E e \in Events, oc \in [1..MaxHandlers -> {"ok", "err"}] : Trigger(e, oc)

SpecHooks == Init /\ [][NextHooks]_vars

---------------------------------------------------------------------------
\* the claims

BuiltinNames == {sVersion, sHelp}

lastSegment(path) == Split(path)[Len(Split(path))]

\* the command held at a path: the root override for the empty path, else
\* the command of the node the whole path resolves to; 0 when none
commandAt(ch, root, path) ==
  IF path = rootCommandPath THEN root
  ELSE LET r == get(ch, <<>>, Split(path))
       IN IF Len(r.rest) = 0 THEN nodeCmd(ch, root, r.node) ELSE 0

\* the events of the trace that satisfy P
eventsOf(cb, c) == {i \in 1..Len(trace) : trace[i].cb = cb /\ trace[i].cmd = c}

\* C1 as stated: registering a command at a non-builtin path that already
\* holds a command fails with a duplicate-command error and leaves the tree
\* unchanged.
C1_Original ==
  [][(op = "idle" /\ op' = "Command"
      /\ lastSegment(input'[1]) \notin BuiltinNames
      /\ commandAt(child, rootCmd, input'[1]) # 0)
     => (/\ err' = "duplicate command"
         /\ cmds' = cmds /\ child' = child /\ rootCmd' = rootCmd
         /\ commandAt(child', rootCmd', input'[1]) = commandAt(child, rootCmd, input'[1]))]_vars

\* C1 amended: registering a command at a non-empty, non-builtin path that
\* already holds a command fails with a duplicate-command error and leaves
\* the tree unchanged, the command registered first still being the one
\* resolved at that path (registering the empty path again replaces the root
\* override without an error).
C1_DuplicateRejected ==
  [][(op = "idle" /\ op' = "Command"
      /\ input'[1] # rootCommandPath
      /\ lastSegment(input'[1]) \notin BuiltinNames
      /\ commandAt(child, rootCmd, input'[1]) # 0)
     => (/\ err' = "duplicate command"
         /\ cmds' = cmds /\ child' = child /\ rootCmd' = rootCmd
         /\ commandAt(child', rootCmd', input'[1]) = commandAt(child, rootCmd, input'[1]))]_vars

C1_Witness ==
  /\ op = "Command" /\ input = <<sA>> /\ err = "duplicate command"
  /\ commandAt(child, rootCmd, sA) # 0

\* C2: registering a command whose last path segment is "version" or "help"
\* where a command already exists never fails and puts the new command in
\* its place; a later dispatch of that path runs callbacks of the new command
\* only, its action among them unless its before-hook failed.
C2_BuiltinReplaced ==
  /\ [][(op = "idle" /\ op' = "Command"
         /\ lastSegment(input'[1]) \in BuiltinNames
         /\ commandAt(child, rootCmd, input'[1]) # 0)
        => (/\ err' = "nil"
            /\ Len(cmds') = Len(cmds) + 1
            /\ commandAt(child', rootCmd', input'[1]) = Len(cmds')
            /\ supersedes'[Len(cmds')] = commandAt(child, rootCmd, input'[1]))]_vars
  /\ [](\A path \in {sVersion, sHelp} :
          (op = "Parse" /\ input = Split(path)
           /\ commandAt(child, rootCmd, path) # 0
           /\ supersedes[commandAt(child, rootCmd, path)] # 0)
          => LET c == commandAt(child, rootCmd, path)
             IN /\ \A i \in 1..Len(trace) : trace[i].cmd \in {c, 0}
                /\ eventsOf("action", supersedes[c]) = {}
                /\ (eventsOf("action", c) = {}
                    => \E i \in eventsOf("before", c) : trace[i].ret = "err"))

C2_Witness ==
  /\ op = "Parse" /\ input = <<sVersion>>
  /\ commandAt(child, rootCmd, sVersion) # 0
  /\ supersedes[commandAt(child, rootCmd, sVersion)] = 1
  /\ eventsOf("action", commandAt(child, rootCmd, sVersion)) # {}

\* C3 as stated: for a command registered at "a b", Parse of a, b, x runs its
\* action with the positional arguments being exactly the extra token x, so
\* that Args().Get(0) is x.
C3_Original ==
  (/\ op = "Parse" /\ input = <<sA, sB, sX>>
   /\ <<sA, sB>> \in DOMAIN child
   /\ eventsOf("action", child[<<sA, sB>>]) # {})
  => (/\ ctx.Cmd = child[<<sA, sB>>]
      /\ ctx.Args = <<sX>>
      /\ ArgsGet(ctx.Args, 0) = sX)

\* the arguments resolve to no node below the root
noTopLevel(args) == <<args[1]>> \notin DOMAIN child

\* C4 as stated: for every non-empty argument list at whose path no command
\* is registered, Parse invokes the not-found handler exactly once and runs
\* no callback of any command.
C4_Original ==
  (/\ op = "Parse" /\ Len(input) > 0
   /\ ~(Len(get(child, <<>>, input).rest) = 0))
  => trace = <<ev(0, "notFound", "ok")>>

\* C4 amended: for every non-empty argument list whose first token names no
\* child of the root node, Parse invokes the not-found handler exactly once
\* and runs no callback of any command, unless a root override is registered
\* and the first token starts with "-": then Parse executes the root override
\* with the arguments and does not invoke the not-found handler.
C4_NotFound ==
  (op = "Parse" /\ Len(input) > 0 /\ noTopLevel(input))
  => IF rootCmd # 0 /\ HasPrefixDash(input[1])
     THEN \A i \in 1..Len(trace) : trace[i].cb # "notFound" /\ trace[i].cmd \in {rootCmd, 0}
     ELSE /\ trace = <<ev(0, "notFound", "ok")>>
          /\ ctx.name = input[1]
          /\ err = "nil"

C4_Witness ==
  /\ op = "Parse" /\ input = <<sX>> /\ rootCmd # 0
  /\ trace = <<ev(0, "notFound", "ok")>>

\* C5: when the dispatched command has an after-hook and its action returns
\* an error, the after-hook runs exactly once, right after the action, and
\* Parse returns the action's error also when the after-hook fails; an
\* after-hook error is returned only when the action returned nil.
C5_AfterHook ==
  op = "Parse"
  => /\ \A i \in 1..Len(trace) :
          (trace[i].cb = "action" /\ trace[i].ret = "err" /\ cmds[trace[i].cmd].After)
          => /\ i + 1 = Len(trace)
             /\ trace[i + 1].cb = "after" /\ trace[i + 1].cmd = trace[i].cmd
             /\ Cardinality(eventsOf("after", trace[i].cmd)) = 1
             /\ err = "action error"
     /\ err = "after error"
        => \E i \in 1..Len(trace) :
             /\ trace[i].cb = "action" /\ trace[i].ret = "ok"
             /\ i + 1 = Len(trace)
             /\ trace[i + 1].cb = "after" /\ trace[i + 1].ret = "err"

C5_Witness ==
  /\ op = "Parse" /\ err = "action error" /\ Len(trace) = 3
  /\ trace[2].cb = "action" /\ trace[2].ret = "err"
  /\ trace[3].cb = "after" /\ trace[3].ret = "err"

\* C6 as stated: when a command's action panics inside Parse, the panic does
\* not leave Parse and Parse returns a non-nil error, in every dispatch
\* branch and with or without a panic handler.
C6_Original ==
  (op = "Parse" /\ \E i \in 1..Len(trace) : trace[i].cb = "action" /\ trace[i].ret = "panic")
  => (~escaped /\ err # "nil")

\* C7: on empty input Parse executes exactly one of the root override, the
\* "help" command and the banner, the first that exists; when the one chosen
\* fails, nothing else runs and its error is what Parse returns.
C7_EmptyInput ==
  (op = "Parse" /\ input = <<>>)
  => LET help == IF <<sHelp>> \in DOMAIN child THEN child[<<sHelp>>] ELSE 0
         chosen == IF rootCmd # 0 THEN rootCmd ELSE help
     IN IF chosen = 0
        THEN trace = <<ev(0, "banner", "ok")>> /\ err = "nil"
        ELSE /\ \A i \in 1..Len(trace) :
                  trace[i].cmd \in {chosen, 0} /\ trace[i].cb # "banner"
             /\ out = <<>>
             /\ cmds[chosen].Action = "nil" => (err = "no action defined" /\ trace = <<>>)
             /\ cmds[chosen].Action # "nil" =>
                  (\/ eventsOf("action", chosen) # {}
                   \/ trace = <<ev(chosen, "before", "err")>>)
             /\ (\E i \in eventsOf("before", chosen) : trace[i].ret = "err")
                  => err = "before error"
             /\ (\E i \in eventsOf("action", chosen) : trace[i].ret = "err")
                  => err = "action error"

C7_Witness ==
  /\ op = "Parse" /\ input = <<>> /\ rootCmd # 0 /\ <<sHelp>> \in DOMAIN child
  /\ err = "action error" /\ eventsOf("action", rootCmd) # {}

\* the banner as C8 states it
statedBanner ==
  (IF Version # <<>> THEN appName \o <<" ", "-", " ">> \o Version \o <<"\n">>
   ELSE appName \o <<"\n">>)
  \o (IF Desc # <<>> THEN <<"\n">> \o Desc \o <<"\n">> ELSE <<>>)

\* the banner with the version written as "v<version>"
bannerV ==
  (IF Version # <<>> THEN appName \o <<" ", "-", " ", "v">> \o Version \o <<"\n">>
   ELSE appName \o <<"\n">>)
  \o (IF Desc # <<>> THEN <<"\n">> \o Desc \o <<"\n">> ELSE <<>>)

noRootNoHelp == rootCmd = 0 /\ <<sHelp>> \notin DOMAIN child

\* C8 as stated: Parse with empty input, no root override and no "help"
\* command writes "<name> - <version>" (or "<name>" when the version is
\* empty), then a blank line and the description when one is set, runs no
\* command callback, does not invoke the not-found handler and returns nil.
C8_Original ==
  (op = "Parse" /\ input = <<>> /\ noRootNoHelp)
  => (out = statedBanner /\ trace = <<ev(0, "banner", "ok")>> /\ err = "nil")

\* C8 amended: the same, the first line being "<name> - v<version>" when the
\* version is set.
C8_Banner ==
  (op = "Parse" /\ input = <<>> /\ noRootNoHelp)
  => (out = bannerV /\ trace = <<ev(0, "banner", "ok")>> /\ err = "nil" /\ ~escaped)

C8_Witness ==
  /\ op = "Parse" /\ input = <<>> /\ noRootNoHelp
  /\ Version = <<"1">> /\ Desc = <<"d">>
  /\ out = <<"a", "p", "p", " ", "-", " ", "v", "1", "\n", "\n", "d", "\n">>

\* the required string flags of command c that the arguments do not name
missingRequired(c, args) ==
  {f \in cmds[c].Flags :
     /\ f.kind = "string" /\ descs[f.ref].required
     /\ \A i \in 1..Len(args) :
          ~(HasPrefixDash(args[i]) /\ IsPrefix(<<"-">> \o f.name \o <<"=">>, args[i]))}

\* C9 as stated: dispatching a command that carries a required string flag
\* without supplying the flag makes Parse return a validation error.
C9_Original ==
  (/\ op = "Parse" /\ input = <<sA>> /\ <<sA>> \in DOMAIN child
   /\ missingRequired(child[<<sA>>], input) # {})
  => err \in {"required flag not provided", "flag is required"}

\* C10: Validate of an integer descriptor returns nil exactly when the value
\* bound to it, as the last parse left it, lies in [min, max]; with the range
\* [1, 10] the values 0 and 11 are rejected, 1 and 10 accepted.
C10_IntRange ==
  (op = "Validate" /\ descs[recv].kind = "int")
  => LET d == descs[recv]
     IN /\ err = "nil" <=> (d.min <= d.idef /\ d.idef <= d.max)
        /\ err \in {"nil", "out of range"}
        /\ (d.min = 1 /\ d.max = 10 /\ d.idef \in {0, 11}) => err = "out of range"
        /\ (d.min = 1 /\ d.max = 10 /\ d.idef \in {1, 10}) => err = "nil"

C10_Witness ==
  /\ op = "Validate" /\ descs[recv].kind = "int"
  /\ descs[recv].min = 1 /\ descs[recv].max = 10
  /\ descs[recv].idef = 11 /\ err = "out of range"

\* Parse dispatched command c: it passed c and the arguments to App.execute
dispatched(c) == op = "Parse" /\ route(input).to = "execute" /\ route(input).cmd = c

\* the arguments App.execute hands to the flag set of c
flagArgs(c) == IF c = rootCmd THEN route(input).args ELSE Tail(route(input).args)

\* the error of parsing them
parseErr(c) == fsParse(cmds[c].Flags, descs, flagArgs(c)).err

\* the flags of c whose descriptor does not validate, in visiting order
violated(c) ==
  SelectSeq(sortedFlags(cmds[c].Flags), LAMBDA f : validateOf(descs[f.ref]) # "nil")

\* C11 as stated: when the flags of the dispatched command parse and a
\* descriptor bound in its flag set does not validate (required and not
\* supplied, or out of range), Parse returns the validation error of the last
\* such descriptor visited, whatever the before-hook and the action return.
C11_Original ==
  \A c \in 1..Len(cmds) :
    (dispatched(c) /\ parseErr(c) = "nil" /\ Len(violated(c)) > 0)
    => err = validateOf(descs[violated(c)[Len(violated(c))].ref])

\* C12 as stated: dispatching a command without an action makes Parse return
\* the no-action error, and neither its before-hook nor its after-hook runs.
C12_Original ==
  \A c \in 1..Len(cmds) :
    (dispatched(c) /\ cmds[c].Action = "nil")
    => (err = "no action defined" /\ trace = <<>>)

\* C12 amended: dispatching a command without an action runs neither its
\* before-hook nor its after-hook; Parse returns the no-action error when the
\* arguments' flags parse, and the flag parse error when they do not.
C12_NoAction ==
  \A c \in 1..Len(cmds) :
    (dispatched(c) /\ cmds[c].Action = "nil")
    => /\ trace = <<>>
       /\ ~escaped
       /\ err = IF parseErr(c) = "nil" THEN "no action defined" ELSE parseErr(c)

C12_Witness ==
  /\ op = "Parse" /\ input = <<sA>> /\ <<sA>> \in DOMAIN child
  /\ dispatched(child[<<sA>>])
  /\ cmds[child[<<sA>>]].Action = "nil"
  /\ cmds[child[<<sA>>]].Before /\ cmds[child[<<sA>>]].After
  /\ err = "no action defined" /\ trace = <<>>

\* C13: the application always has a "version" command; dispatching the
\* built-in one writes the version and a newline and returns nil when the
\* version is set, and writes nothing and returns "version not set" when it is
\* empty; installing the built-in plugin again leaves the "version" command
\* that exists, a user's included, in place.
C13_Version ==
  /\ [](/\ <<sVersion>> \in DOMAIN child
        /\ \A c \in 1..Len(cmds) :
             (dispatched(c) /\ cmds[c].Action = "version" /\ parseErr(c) = "nil")
             => /\ trace = <<ev(c, "action", IF Version = <<>> THEN "err" ELSE "ok")>>
                /\ Version # <<>> => (out = Version \o <<"\n">> /\ err = "nil")
                /\ Version = <<>> => (out = <<>> /\ err = "version not set"))
  /\ [][op' = "Adopt" => (cmds' = cmds /\ child' = child /\ rootCmd' = rootCmd)]_vars

C13_Witness ==
  /\ op = "Adopt"
  /\ cmds[child[<<sVersion>>]].Action = "user"

\* C14 as stated: when the dispatched command has a before-hook and an
\* after-hook and the before-hook returns an error, the action does not run,
\* the after-hook runs exactly once, and Parse returns the before-hook's error.
C14_Original ==
  \A c \in 1..Len(cmds) :
    (/\ dispatched(c) /\ cmds[c].Before /\ cmds[c].After
     /\ \E i \in eventsOf("before", c) : trace[i].ret = "err")
    => /\ eventsOf("action", c) = {}
       /\ Cardinality(eventsOf("after", c)) = 1
       /\ err = "before error"

\* the paths at which the tree holds command id
pathsOf(ch, id) == {q \in DOMAIN ch : ch[q] = id}

\* C15 as stated: a successful registration at a non-empty path stores the
\* command at the node of exactly that segment sequence, also when no command
\* is registered at the parent path, and at no other node.
C15_Original ==
  [][(op' = "Command" /\ err' = "nil" /\ input'[1] # rootCommandPath)
     => /\ pathsOf(child', Len(cmds')) = {Split(input'[1])}
        /\ get(child', <<>>, Split(input'[1])) =
             [node |-> Split(input'[1]), rest |-> <<>>]]_vars

\* the global descriptors
globalRefs == {globals[i] : i \in 1..Len(globals)}

\* C16: a name bound in a command's flag set stays bound as it is (descriptor,
\* default and help) through every later step, so a command-local descriptor
\* keeps its name against a global one; a dispatch adds to the flag set only
\* names it lacked, bound to global descriptors, and adds nothing, no alias
\* either, for a global descriptor whose name it already had; once the
\* globals' names are there a dispatch leaves the flag set as it is.
C16_LocalWins ==
  /\ [](\A c \in 1..Len(cmds) : \A f, g \in cmds[c].Flags : f.name = g.name => f = g)
  /\ [][\A c \in 1..Len(cmds) :
          /\ cmds[c].Flags \subseteq cmds'[c].Flags
          /\ \A f \in cmds'[c].Flags \ cmds[c].Flags :
               /\ op' = "Parse"
               /\ f.ref \in globalRefs
               /\ Lookup(cmds[c].Flags, f.name) = {}
               /\ Lookup(cmds[c].Flags, descs[f.ref].name) = {}
          /\ (\A r \in globalRefs : Lookup(cmds[c].Flags, descs[r].name) # {})
             => cmds'[c].Flags = cmds[c].Flags]_vars

C16_Witness ==
  /\ op = "Parse" /\ Len(globals) > 0
  /\ \E c \in 1..Len(cmds) :
       /\ dispatched(c)
       /\ \E f \in cmds[c].Flags :
            /\ f.name = <<"s">> /\ f.ref \notin globalRefs /\ f.usage = <<"s">>
            /\ descs[globals[1]].name = f.name
       /\ Lookup(cmds[c].Flags, <<"t">>) = {}
  /\ \E c \in 1..Len(cmds) :
       \E f \in cmds[c].Flags : f.name = <<"t">> /\ f.ref \in globalRefs

\* C17 as stated: when Parse invokes the not-found handler, the handler gets
\* the first input token as the name and a Context whose raw arguments are
\* the segments tree resolution left unconsumed.
C17_Original ==
  (op = "Parse" /\ \E i \in 1..Len(trace) : trace[i].cb = "notFound")
  => /\ ctx.name = input[1]
     /\ ctx.RawArgs = get(child, <<>>, input).rest

\* the handlers registered for event e, in order
handlersOf(e) == IF e \in DOMAIN handlers THEN handlers[e] ELSE <<>>

\* C18: trigger(event) invokes the handlers registered for the event in
\* registration order, each at most once and none of another event; it stops
\* at the first that returns an error and returns that error; when none
\* fails it invokes all of them and returns nil.
C18_Trigger ==
  hevent # ""
  => LET hs == handlersOf(hevent)
         n == Len(hcalls)
     IN /\ n <= Len(hs)
        /\ \A i \in 1..n : hcalls[i].h = hs[i]
        /\ \A i, j \in 1..n : hcalls[i].h = hcalls[j].h => i = j
        /\ \A i \in 1..n : \A e \in (DOMAIN handlers) \ {hevent} :
             \A k \in 1..Len(handlers[e]) : handlers[e][k] # hcalls[i].h
        /\ \A i \in 1..(n - 1) : hcalls[i].ret = "ok"
        /\ IF n > 0 /\ hcalls[n].ret = "err"
           THEN hret = hcalls[n].h
           ELSE hret = 0 /\ n = Len(hs)

C18_Witness ==
  /\ hevent = "not_found"
  /\ Len(handlersOf("not_found")) = 2 /\ Len(handlersOf("before_command")) = 1
  /\ Len(hcalls) = 1 /\ hcalls[1].ret = "err" /\ hret = hcalls[1].h

\* C19 as stated: the root store and its namespace views share one lock, so
\* at no time are two goroutines both inside a method on the shared map, each
\* between taking and releasing its lock, when one of the two writes.
C19_Original == \A g, h \in Goroutines : ~conflict(g, h)

\* the keys set through the view of namespace n or through views derived from it
owned(n) ==
  {k \in DOMAIN data : setBy[k] = n \/ IsPrefix(n \o <<".">>, setBy[k])}

\* C20 as stated: called without argument on the view of namespace N, with
\* no other call in progress, Keys() returns exactly the keys set through
\* that view or views derived from it, and Clear() deletes exactly those and
\* leaves every other key as it is.
C20_Original ==
  [][\A g \in Goroutines :
       (/\ pc[g] = "held" /\ pc'[g] = "idle"
        /\ \A h \in Goroutines \ {g} : pc[h] = "idle"
        /\ call[g].prefix = <<>>
        /\ views[call[g].view].prefix # <<>>)
       => LET n == views[call[g].view].prefix
          IN /\ call[g].op = "Keys" => sres'.keys = owned(n)
             /\ call[g].op = "Clear"
                => /\ DOMAIN data' = (DOMAIN data) \ owned(n)
                   /\ \A k \in DOMAIN data' : data'[k] = data[k]]_vars

\* the arguments name flag f (as -name=value)
supplied(f, args) ==
  \E i \in 1..Len(args) : IsPrefix(<<"-">> \o f.name \o <<"=">>, args[i])

\* C21 as stated: what the callbacks of a dispatched command observe depends
\* on the registered descriptors and the arguments of this call alone: a flag
\* of the command that the arguments do not supply reads as the default it
\* was registered with, whatever earlier Parse calls were given.
C21_Original ==
  \A c \in 1..Len(cmds) :
    (dispatched(c) /\ eventsOf("action", c) # {})
    => \A f \in cmds[c].Flags :
         ~supplied(f, input) => valueString(descs, f) = f.DefValue

\* C22 as stated: on empty input with a root override registered, the root
\* command's action sees no positional argument: Args() has length 0, and
\* Get(0) is empty because the index is out of range.
C22_Original ==
  (/\ op = "Parse" /\ input = <<>> /\ rootCmd # 0
   /\ eventsOf("action", rootCmd) # {})
  => /\ ctx.Cmd = rootCmd
     /\ Len(ctx.Args) = 0
     /\ ArgsGet(ctx.Args, 0) = <<>>

====
